---- MODULE Spec2Model ----
(***************************************************************************)
(* generate_graphs.py: parse a motion-sensor CSV log, derive net           *)
(* acceleration, net jerk and angular rates, normalise the time axes and   *)
(* hand five charts to the renderer, then write the image.                 *)
(*                                                                         *)
(* Floating-point values are modelled as exact extended rationals <<n, d>> *)
(* with d > 0 and gcd(n, d) = 1 for finite values, and d = 0 for the       *)
(* non-finite IEEE values: <<1, 0>> = +inf, <<-1, 0>> = -inf,              *)
(* <<0, 0>> = NaN.  Rounding, overflow and the sign of zero are not        *)
(* modelled.  A CSV field is a sequence of one-character strings.          *)
(***************************************************************************)
EXTENDS Integers, Sequences, FiniteSets, TLC

(***************************************************************************)
(* Extended-rational arithmetic (IEEE 754 special values, exact otherwise) *)
(***************************************************************************)
Abs(x) == IF x < 0 THEN -x ELSE x

Sgn(x) == IF x < 0 THEN -1 ELSE IF x > 0 THEN 1 ELSE 0

RECURSIVE GCD(_, _)
GCD(a, b) == IF b = 0 THEN a ELSE GCD(b, a % b)

NaN == <<0, 0>>

PosInf == <<1, 0>>

NegInf == <<-1, 0>>

Zero == <<0, 1>>

IsNaN(v) == v = NaN

IsInf(v) == v[2] = 0 /\ v[1] # 0

IsFinite(v) == v[2] # 0

\* the finite value n/d (d # 0) in lowest terms with a positive denominator
Rat(n, d) ==
    LET g == GCD(Abs(n), Abs(d))
        s == IF d < 0 THEN -1 ELSE 1
    IN  <<(s * n) \div g, Abs(d) \div g>>

\* a < b on non-NaN values (every comparison with NaN is false)
FLess(a, b) ==
    /\ ~IsNaN(a)
    /\ ~IsNaN(b)
    /\ IF IsInf(a) \/ IsInf(b)
       THEN (a = NegInf /\ b # NegInf) \/ (b = PosInf /\ a # PosInf)
       ELSE a[1] * b[2] < b[1] * a[2]

\* a >= b (false when either side is NaN)
FGeq(a, b) == ~IsNaN(a) /\ ~IsNaN(b) /\ ~FLess(a, b)

FAdd(a, b) ==
    IF IsNaN(a) \/ IsNaN(b) THEN NaN
    ELSE IF IsInf(a) THEN (IF IsInf(b) /\ a # b THEN NaN ELSE a)
    ELSE IF IsInf(b) THEN b
    ELSE Rat(a[1] * b[2] + b[1] * a[2], a[2] * b[2])

FNeg(a) == <<-a[1], a[2]>>

FSub(a, b) == FAdd(a, FNeg(b))

FMul(a, b) ==
    IF IsNaN(a) \/ IsNaN(b) THEN NaN
    ELSE IF IsInf(a) \/ IsInf(b)
         THEN (IF a[1] = 0 \/ b[1] = 0 THEN NaN ELSE <<Sgn(a[1]) * Sgn(b[1]), 0>>)
    ELSE Rat(a[1] * b[1], a[2] * b[2])

\* numpy true division: x/0 is +-inf, 0/0 and inf/inf are NaN, no exception
FDiv(a, b) ==
    IF IsNaN(a) \/ IsNaN(b) THEN NaN
    ELSE IF IsInf(a)
         THEN (IF IsInf(b) THEN NaN
               ELSE <<a[1] * (IF b[1] < 0 THEN -1 ELSE 1), 0>>)
    ELSE IF IsInf(b) THEN Zero
    ELSE IF b[1] = 0
         THEN (IF a[1] = 0 THEN NaN ELSE <<Sgn(a[1]), 0>>)
    ELSE Rat(a[1] * b[2], a[2] * b[1])

\* largest r with r*r <= n
ISqrt(n) == CHOOSE r \in 0..n : r * r <= n /\ (r + 1) * (r + 1) > n

\* np.sqrt: NaN for NaN and negative arguments, +inf for +inf; exact on
\* ratios of perfect squares (the enumerated accelerations give such sums),
\* rounded down to the integer roots otherwise
FSqrt(a) ==
    IF IsNaN(a) \/ a[1] < 0 THEN NaN
    ELSE IF IsInf(a) THEN PosInf
    ELSE Rat(ISqrt(a[1]), ISqrt(a[2]))

(***************************************************************************)
(* float(str): the conversion applied to CSV fields 0..6                   *)
(***************************************************************************)
Digit == {"0", "1", "2", "3", "4", "5", "6", "7", "8", "9"}

Whitespace == {" ", "\t"}

DigitVal(c) ==
    CASE c = "0" -> 0 [] c = "1" -> 1 [] c = "2" -> 2 [] c = "3" -> 3
      [] c = "4" -> 4 [] c = "5" -> 5 [] c = "6" -> 6 [] c = "7" -> 7
      [] c = "8" -> 8 [] c = "9" -> 9

Lower(c) ==
    CASE c = "N" -> "n" [] c = "A" -> "a" [] c = "I" -> "i" [] c = "F" -> "f"
      [] c = "T" -> "t" [] c = "Y" -> "y" [] OTHER -> c

RECURSIVE LStrip(_)
LStrip(s) == IF s # <<>> /\ Head(s) \in Whitespace THEN LStrip(Tail(s)) ELSE s

RECURSIVE RStrip(_)
RStrip(s) ==
    IF s # <<>> /\ s[Len(s)] \in Whitespace
    THEN RStrip(SubSeq(s, 1, Len(s) - 1))
    ELSE s

\* number of leading decimal digits of s
RECURSIVE DigitRun(_)
DigitRun(s) == IF s # <<>> /\ Head(s) \in Digit THEN 1 + DigitRun(Tail(s)) ELSE 0

\* value of the first k characters of s read as a decimal numeral
RECURSIVE DigitsVal(_, _)
DigitsVal(s, k) == IF k = 0 THEN 0 ELSE DigitsVal(s, k - 1) * 10 + DigitVal(s[k])

RECURSIVE Pow10(_)
Pow10(k) == IF k = 0 THEN 1 ELSE 10 * Pow10(k - 1)

Drop(s, k) == SubSeq(s, k + 1, Len(s))

ParseError == [ok |-> FALSE, v |-> NaN]

\* the mantissa digits [. digits] once the integer digits (il of them) and
\* the point are read: at least one digit in all; r2 is the text after the point
MantissaFrac(s, il, r2) ==
    LET fl == DigitRun(r2)
    IN  [ok |-> il + fl >= 1,
         v |-> Rat(DigitsVal(s, il) * Pow10(fl) + DigitsVal(r2, fl), Pow10(fl)),
         rest |-> Drop(r2, fl)]

\* the leading mantissa of s: its value and the text that follows it
Mantissa(s) ==
    LET il == DigitRun(s)
        r1 == Drop(s, il)
    IN  IF r1 # <<>> /\ Head(r1) = "."
        THEN MantissaFrac(s, il, Tail(r1))
        ELSE [ok |-> il >= 1, v |-> <<DigitsVal(s, il), 1>>, rest |-> r1]

NoExponent == [ok |-> TRUE, neg |-> FALSE, e |-> 0]

BadExponent == [ok |-> FALSE, neg |-> FALSE, e |-> 0]

\* the digits of an exponent after its optional sign: all of d, at least one
ExponentDigits(neg, d) ==
    IF d # <<>> /\ DigitRun(d) = Len(d)
    THEN [ok |-> TRUE, neg |-> neg, e |-> DigitsVal(d, Len(d))]
    ELSE BadExponent

\* the text after the mantissa: nothing, or e [sign] digits to the end
Exponent(r) ==
    IF r = <<>> THEN NoExponent
    ELSE IF Head(r) \notin {"e", "E"} \/ Tail(r) = <<>> THEN BadExponent
    ELSE IF r[2] \in {"+", "-"} THEN ExponentDigits(r[2] = "-", Drop(r, 2))
    ELSE ExponentDigits(FALSE, Tail(r))

\* mantissa m scaled by the power of ten x
Scaled(m, x) ==
    IF m.ok /\ x.ok
    THEN [ok |-> TRUE,
          v |-> IF x.neg THEN FDiv(m.v, <<Pow10(x.e), 1>>)
                ELSE FMul(m.v, <<Pow10(x.e), 1>>)]
    ELSE ParseError

LowerAll(s) == [i \in 1..Len(s) |-> Lower(s[i])]

\* the numeral after the optional sign: inf, infinity, nan (any case), or
\* digits [. digits] [e [sign] digits] with at least one mantissa digit
ParseUnsigned(s) ==
    IF LowerAll(s) \in {<<"i", "n", "f">>, <<"i", "n", "f", "i", "n", "i", "t", "y">>}
    THEN [ok |-> TRUE, v |-> PosInf]
    ELSE IF LowerAll(s) = <<"n", "a", "n">>
    THEN [ok |-> TRUE, v |-> NaN]
    ELSE Scaled(Mantissa(s), Exponent(Mantissa(s).rest))

\* float(field): surrounding whitespace is stripped, an optional sign is
\* read, the rest must be a numeral; anything else raises ValueError
ParseFloat(field) ==
    LET s == RStrip(LStrip(field))
    IN  IF s # <<>> /\ Head(s) = "-"
        THEN [ok |-> ParseUnsigned(Tail(s)).ok, v |-> FNeg(ParseUnsigned(Tail(s)).v)]
        ELSE IF s # <<>> /\ Head(s) = "+" THEN ParseUnsigned(Tail(s))
        ELSE ParseUnsigned(s)

(***************************************************************************)
(* Inputs: the command line, the input path and the rows csv.reader yields *)
(***************************************************************************)
\* number of data lines after the header in the enumerated files
MaxRows == 3

\* fields parse_csv converts (row[0] .. row[6])
NumFields == 7

\* len(sys.argv) of a well-formed invocation
ArgCount == 3

MsPerSecond == <<1000, 1>>

\* the first sample of the documented scenario
RowA ==
    <<<<"0">>, <<"0">>, <<"0">>, <<"0">>, <<"1">>, <<"0">>, <<"0">>>>

\* the second sample of the documented scenario
RowB ==
    <<<<"1", "0", "0", "0">>, <<"9", "0">>, <<"0">>, <<"0">>, <<"0">>, <<"1">>, <<"0">>>>

\* padded time field, negative and fractional angles, an eighth field
RowC ==
    <<<<" ", "2", "0", "0", "0", " ">>, <<"-", "9", "0">>, <<"4", "5">>, <<"1", ".", "5">>, <<"3">>, <<"4">>, <<"0">>, <<"x">>>>

\* time in exponent notation, equal to RowB's; negative accelerations
RowD ==
    <<<<"1", "e", "3">>, <<"0">>, <<"3", "0">>, <<"-", "3", "0">>, <<"-", "2">>, <<"-", "3">>, <<"6">>>>

\* an earlier time than RowB's and a NaN acceleration component
RowE ==
    <<<<"5", "0", "0">>, <<"0">>, <<"0">>, <<"0">>, <<"n", "a", "n">>, <<"0">>, <<"0">>>>

\* an infinite time
RowF ==
    <<<<"i", "n", "f">>, <<"1", "0">>, <<"2", "0">>, <<"3", "0">>, <<"2">>, <<"3">>, <<"6">>>>

\* six fields only
RowG ==
    <<<<"3", "0", "0", "0">>, <<"1">>, <<"2">>, <<"3">>, <<"4">>, <<"5">>>>

\* seven fields, field 3 is not a numeral
RowH ==
    <<<<"3", "0", "0", "0">>, <<"1">>, <<"2">>, <<"a", "b", "c">>, <<"4">>, <<"5">>, <<"6">>>>

HeaderText ==
    <<<<"t", "i", "m", "e", "_", "m", "s">>, <<"y", "a", "w">>, <<"p", "i", "t", "c", "h">>, <<"r", "o", "l", "l">>, <<"a", "x">>, <<"a", "y">>, <<"a", "z">>>>

Rows == {RowA, RowB, RowC, RowD, RowE, RowF, RowG, RowH}

\* the first line is a textual header or a well-formed numeric row
Headers == {HeaderText, RowB}

Bodies == UNION {[1..n -> Rows] : n \in 0..MaxRows}

\* the rows of an existing input file: no line at all, or a first line
\* followed by up to MaxRows lines
Files == {<<>>} \cup {<<h>> \o b : h \in Headers, b \in Bodies}

(***************************************************************************)
(* Program state                                                           *)
(***************************************************************************)
VARIABLES
    argv_len,          \* len(sys.argv)
    exists,            \* Path(input_file).exists() at start
    file,              \* rows csv.reader yields for the input file
    pc,                \* position in the program
    opened,            \* open(filename) has been executed
    reader,            \* index in file of the row the reader yields next
    times, yaws, pitches, rolls, accel_x, accel_y, accel_z,
    net_acc, jerk, jerk_times,
    yaw_rate, pitch_rate, roll_rate, deriv_times,
    start_time, times_norm, jerk_times_norm, deriv_times_norm,
    plots,             \* plot calls issued so far, in order
    output,            \* charts in the output file; <<>> while not written
    printed,           \* messages printed so far
    success,           \* "True" or "False" once generate_graphs returned, else "none"
    exit_via,          \* "running", "sys_exit" or "exception"
    exit_code          \* process exit status once exit_via # "running"

inputs == <<argv_len, exists, file>>

parsed == <<times, yaws, pitches, rolls, accel_x, accel_y, accel_z>>

derived == <<net_acc, jerk, jerk_times, yaw_rate, pitch_rate, roll_rate, deriv_times>>

normalized == <<start_time, times_norm, jerk_times_norm, deriv_times_norm>>

ending == <<success, exit_via, exit_code>>

vars == <<inputs, pc, opened, reader, parsed, derived, normalized, plots, output,
          printed, ending>>

Init ==
    /\ argv_len \in {ArgCount - 1, ArgCount}
    /\ exists \in BOOLEAN
    /\ file \in (IF exists /\ argv_len = ArgCount THEN Files ELSE {<<>>})
    /\ pc = "main"
    /\ opened = FALSE
    /\ reader = 1
    /\ times = <<>> /\ yaws = <<>> /\ pitches = <<>> /\ rolls = <<>>
    /\ accel_x = <<>> /\ accel_y = <<>> /\ accel_z = <<>>
    /\ net_acc = <<>> /\ jerk = <<>> /\ jerk_times = <<>>
    /\ yaw_rate = <<>> /\ pitch_rate = <<>> /\ roll_rate = <<>> /\ deriv_times = <<>>
    /\ start_time = Zero
    /\ times_norm = <<>> /\ jerk_times_norm = <<>> /\ deriv_times_norm = <<>>
    /\ plots = <<>>
    /\ output = <<>>
    /\ printed = <<>>
    /\ success = "none"
    /\ exit_via = "running"
    /\ exit_code = 0

(***************************************************************************)
(* __main__                                                                *)
(***************************************************************************)
\* sys.exit(code)
SysExit(code) ==
    /\ pc' = "done"
    /\ exit_via' = "sys_exit"
    /\ exit_code' = code

\* an exception no handler catches: traceback, exit status 1
Uncaught ==
    /\ pc' = "done"
    /\ exit_via' = "exception"
    /\ exit_code' = 1

\* if len(sys.argv) != 3: usage, exit 1
CheckArgs ==
    /\ pc = "main"
    /\ IF argv_len # ArgCount
       THEN /\ printed' = Append(printed, "Usage")
            /\ SysExit(1)
       ELSE /\ pc' = "check_exists"
            /\ UNCHANGED <<printed, exit_via, exit_code>>
    /\ UNCHANGED <<inputs, opened, reader, parsed, derived, normalized, plots,
                   output, success>>

\* faulty variant of CheckExists: the existence test is left out
CheckExists_NoCheck ==
    /\ pc = "check_exists"
    /\ pc' = "parse_csv"
    /\ UNCHANGED <<inputs, opened, reader, parsed, derived, normalized, plots,
                   output, printed, ending>>

\* if not Path(input_file).exists(): error, exit 1; else call generate_graphs
CheckExists ==
    /\ pc = "check_exists"
    /\ IF ~exists
       THEN /\ printed' = Append(printed, "Error: Input file not found")
            /\ SysExit(1)
       ELSE /\ pc' = "parse_csv"
            /\ UNCHANGED <<printed, exit_via, exit_code>>
    /\ UNCHANGED <<inputs, opened, reader, parsed, derived, normalized, plots,
                   output, success>>

(***************************************************************************)
(* parse_csv                                                               *)
(***************************************************************************)
\* the empty lists and open(filename, 'r'); open raises when the path is
\* missing
OpenFile ==
    /\ pc = "parse_csv"
    /\ IF exists
       THEN /\ opened' = TRUE
            /\ pc' = "skip_header"
            /\ UNCHANGED <<exit_via, exit_code>>
       ELSE /\ Uncaught
            /\ UNCHANGED opened
    /\ times' = <<>> /\ yaws' = <<>> /\ pitches' = <<>> /\ rolls' = <<>>
    /\ accel_x' = <<>> /\ accel_y' = <<>> /\ accel_z' = <<>>
    /\ UNCHANGED <<inputs, reader, derived, normalized, plots, output, printed,
                   success>>

\* next(reader): skips the first row; raises StopIteration, which nothing
\* catches, when the file has no row
SkipHeader ==
    /\ pc = "skip_header"
    /\ IF Len(file) = 0
       THEN /\ Uncaught
            /\ UNCHANGED reader
       ELSE /\ reader' = reader + 1
            /\ pc' = "rows"
            /\ UNCHANGED <<exit_via, exit_code>>
    /\ UNCHANGED <<inputs, opened, parsed, derived, normalized, plots, output,
                   printed, success>>

\* faulty variant of RowValues: len(row) == 7 in place of len(row) >= 7
RowValues_ExactlySeven(row) ==
    IF Len(row) = NumFields /\ \A i \in 1..NumFields : ParseFloat(row[i]).ok
    THEN [i \in 1..NumFields |->
             IF i = 1 THEN FDiv(ParseFloat(row[i]).v, MsPerSecond)
             ELSE ParseFloat(row[i]).v]
    ELSE <<>>

\* the body of the row loop: <<>> when the row is skipped (fewer than 7
\* fields, or a float() that raises ValueError), else the seven values with
\* the time converted to seconds
RowValues(row) ==
    IF Len(row) >= NumFields
    THEN LET p == [i \in 1..NumFields |-> ParseFloat(row[i])]
         IN  IF \A i \in 1..NumFields : p[i].ok
             THEN [i \in 1..NumFields |->
                      IF i = 1 THEN FDiv(p[i].v, MsPerSecond) ELSE p[i].v]
             ELSE <<>>
    ELSE <<>>

\* one iteration of "for row in reader"
ReadRow ==
    /\ pc = "rows"
    /\ reader <= Len(file)
    /\ LET v == RowValues(file[reader])
       IN  IF v # <<>>
           THEN /\ times' = Append(times, v[1])
                /\ yaws' = Append(yaws, v[2])
                /\ pitches' = Append(pitches, v[3])
                /\ rolls' = Append(rolls, v[4])
                /\ accel_x' = Append(accel_x, v[5])
                /\ accel_y' = Append(accel_y, v[6])
                /\ accel_z' = Append(accel_z, v[7])
           ELSE UNCHANGED parsed
    /\ reader' = reader + 1
    /\ UNCHANGED <<inputs, pc, opened, derived, normalized, plots, output,
                   printed, ending>>

\* the reader is exhausted: the file is closed and the arrays are returned
ParseReturn ==
    /\ pc = "rows"
    /\ reader > Len(file)
    /\ pc' = "check_empty"
    /\ UNCHANGED <<inputs, opened, reader, parsed, derived, normalized, plots,
                   output, printed, ending>>

(***************************************************************************)
(* Derivation engine                                                       *)
(***************************************************************************)
\* np.diff(a): a[i+1] - a[i]
Diff(a) == [i \in 1..(Len(a) - 1) |-> FSub(a[i + 1], a[i])]

\* faulty variant of VDiv: a guarded division that yields 0 for a zero divisor
VDiv_Guarded(a, b) ==
    [i \in 1..Len(a) |-> IF b[i] = Zero THEN Zero ELSE FDiv(a[i], b[i])]

\* elementwise a / b of two arrays of one length
VDiv(a, b) == [i \in 1..Len(a) |-> FDiv(a[i], b[i])]

\* faulty variant of VShift: the subtraction reversed
VShift_Reversed(a, c) == [i \in 1..Len(a) |-> FSub(c, a[i])]

\* a - c for an array a and a scalar c
VShift(a, c) == [i \in 1..Len(a) |-> FSub(a[i], c)]

\* a[1:]
Rest(a) == SubSeq(a, 2, Len(a))

\* faulty variant of calculate_net_acceleration: the square root is left out
calculate_net_acceleration_NoSqrt(ax, ay, az) ==
    [i \in 1..Len(ax) |->
        FAdd(FAdd(FMul(ax[i], ax[i]), FMul(ay[i], ay[i])), FMul(az[i], az[i]))]

\* np.sqrt(ax**2 + ay**2 + az**2)
calculate_net_acceleration(ax, ay, az) ==
    [i \in 1..Len(ax) |->
        FSqrt(FAdd(FAdd(FMul(ax[i], ax[i]), FMul(ay[i], ay[i])), FMul(az[i], az[i])))]

\* faulty variant of calculate_net_jerk: left-edge alignment, times[:-1]
calculate_net_jerk_LeftEdge(na, ts) ==
    <<VDiv(Diff(na), Diff(ts)), SubSeq(ts, 1, Len(ts) - 1)>>

\* returns <<jerk, jerk_times>>
calculate_net_jerk(na, ts) == <<VDiv(Diff(na), Diff(ts)), Rest(ts)>>

\* returns <<yaw_rate, pitch_rate, roll_rate, deriv_times>>
calculate_angular_velocities(ys, ps, rs, ts) ==
    <<VDiv(Diff(ys), Diff(ts)), VDiv(Diff(ps), Diff(ts)), VDiv(Diff(rs), Diff(ts)),
      Rest(ts)>>

(***************************************************************************)
(* generate_graphs                                                         *)
(***************************************************************************)
\* if len(times) == 0: print the error and return False
CheckEmpty ==
    /\ pc = "check_empty"
    /\ IF Len(times) = 0
       THEN /\ printed' = Append(printed, "Error: No valid data found in CSV file")
            /\ success' = "False"
            /\ pc' = "exit"
       ELSE /\ pc' = "net_acc"
            /\ UNCHANGED <<printed, success>>
    /\ UNCHANGED <<inputs, opened, reader, parsed, derived, normalized, plots,
                   output, exit_via, exit_code>>

NetAcc ==
    /\ pc = "net_acc"
    /\ net_acc' = calculate_net_acceleration(accel_x, accel_y, accel_z)
    /\ pc' = "jerk"
    /\ UNCHANGED <<inputs, opened, reader, parsed, jerk, jerk_times, yaw_rate,
                   pitch_rate, roll_rate, deriv_times, normalized, plots, output,
                   printed, ending>>

NetJerk ==
    /\ pc = "jerk"
    /\ LET r == calculate_net_jerk(net_acc, times)
       IN  /\ jerk' = r[1]
           /\ jerk_times' = r[2]
    /\ pc' = "angular"
    /\ UNCHANGED <<inputs, opened, reader, parsed, net_acc, yaw_rate, pitch_rate,
                   roll_rate, deriv_times, normalized, plots, output, printed,
                   ending>>

AngularVelocities ==
    /\ pc = "angular"
    /\ LET r == calculate_angular_velocities(yaws, pitches, rolls, times)
       IN  /\ yaw_rate' = r[1]
           /\ pitch_rate' = r[2]
           /\ roll_rate' = r[3]
           /\ deriv_times' = r[4]
    /\ pc' = "normalize"
    /\ UNCHANGED <<inputs, opened, reader, parsed, net_acc, jerk, jerk_times,
                   normalized, plots, output, printed, ending>>

\* faulty variant of Normalize: each axis is shifted by its own first element
Normalize_OwnFirst ==
    /\ pc = "normalize"
    /\ start_time' = times[1]
    /\ times_norm' = VShift(times, times[1])
    /\ jerk_times_norm' =
          (IF jerk_times = <<>> THEN <<>> ELSE VShift(jerk_times, jerk_times[1]))
    /\ deriv_times_norm' =
          (IF deriv_times = <<>> THEN <<>> ELSE VShift(deriv_times, deriv_times[1]))
    /\ pc' = "plot1"
    /\ UNCHANGED <<inputs, opened, reader, parsed, derived, plots, output, printed,
                   ending>>

\* start_time = times[0] and the three shifted axes
Normalize ==
    /\ pc = "normalize"
    /\ start_time' = times[1]
    /\ times_norm' = VShift(times, times[1])
    /\ jerk_times_norm' = VShift(jerk_times, times[1])
    /\ deriv_times_norm' = VShift(deriv_times, times[1])
    /\ pc' = "plot1"
    /\ UNCHANGED <<inputs, opened, reader, parsed, derived, plots, output, printed,
                   ending>>

\* plt.subplot(5, 1, pos) and its plot calls: one x axis, the y series
Chart(pos, title, x, ys) == [pos |-> pos, title |-> title, x |-> x, ys |-> ys]

Plot1 ==
    /\ pc = "plot1"
    /\ plots' = Append(plots, Chart(1, "Net Acceleration vs Time", times_norm,
                                    <<net_acc>>))
    /\ pc' = "plot2"
    /\ UNCHANGED <<inputs, opened, reader, parsed, derived, normalized, output,
                   printed, ending>>

\* faulty variant of Plot2: the jerk is plotted against the sample-aligned axis
Plot2_SampleAxis ==
    /\ pc = "plot2"
    /\ plots' = Append(plots, Chart(2, "Net Jerk vs Time", times_norm, <<jerk>>))
    /\ pc' = "plot3"
    /\ UNCHANGED <<inputs, opened, reader, parsed, derived, normalized, output,
                   printed, ending>>

Plot2 ==
    /\ pc = "plot2"
    /\ plots' = Append(plots, Chart(2, "Net Jerk vs Time", jerk_times_norm, <<jerk>>))
    /\ pc' = "plot3"
    /\ UNCHANGED <<inputs, opened, reader, parsed, derived, normalized, output,
                   printed, ending>>

Plot3 ==
    /\ pc = "plot3"
    /\ plots' = Append(plots, Chart(3, "Accelerations (X, Y, Z) vs Time", times_norm,
                                    <<accel_x, accel_y, accel_z>>))
    /\ pc' = "plot4"
    /\ UNCHANGED <<inputs, opened, reader, parsed, derived, normalized, output,
                   printed, ending>>

Plot4 ==
    /\ pc = "plot4"
    /\ plots' = Append(plots, Chart(4, "Angles (Yaw, Pitch, Roll) vs Time", times_norm,
                                    <<yaws, pitches, rolls>>))
    /\ pc' = "plot5"
    /\ UNCHANGED <<inputs, opened, reader, parsed, derived, normalized, output,
                   printed, ending>>

Plot5 ==
    /\ pc = "plot5"
    /\ plots' = Append(plots, Chart(5, "Angular Velocities (Yaw, Pitch, Roll) vs Time",
                                    deriv_times_norm,
                                    <<yaw_rate, pitch_rate, roll_rate>>))
    /\ pc' = "savefig"
    /\ UNCHANGED <<inputs, opened, reader, parsed, derived, normalized, output,
                   printed, ending>>

\* plt.savefig(output_file), the message and return True
Savefig ==
    /\ pc = "savefig"
    /\ output' = plots
    /\ printed' = Append(printed, "Graphs saved")
    /\ success' = "True"
    /\ pc' = "exit"
    /\ UNCHANGED <<inputs, opened, reader, parsed, derived, normalized, plots,
                   exit_via, exit_code>>

\* faulty variant of Exit: sys.exit(0) whatever generate_graphs returned
Exit_AlwaysZero ==
    /\ pc = "exit"
    /\ SysExit(0)
    /\ UNCHANGED <<inputs, opened, reader, parsed, derived, normalized, plots,
                   output, printed, success>>

\* sys.exit(0 if success else 1)
Exit ==
    /\ pc = "exit"
    /\ SysExit(IF success = "True" THEN 0 ELSE 1)
    /\ UNCHANGED <<inputs, opened, reader, parsed, derived, normalized, plots,
                   output, printed, success>>

Next ==
    \/ CheckArgs
    \/ CheckExists
    \/ OpenFile
    \/ SkipHeader
    \/ ReadRow
    \/ ParseReturn
    \/ CheckEmpty
    \/ NetAcc
    \/ NetJerk
    \/ AngularVelocities
    \/ Normalize
    \/ Plot1
    \/ Plot2
    \/ Plot3
    \/ Plot4
    \/ Plot5
    \/ Savefig
    \/ Exit

Spec == Init /\ [][Next]_vars

(***************************************************************************)
(* Vocabulary of the properties                                            *)
(***************************************************************************)
N == Len(times)

\* a row the parser keeps: at least 7 fields, fields 0..6 accepted by float()
ValidRow(row) ==
    /\ Len(row) >= NumFields
    /\ \A i \in 1..NumFields : ParseFloat(row[i]).ok

\* column c of a valid row, the time column in seconds
Column(row, c) ==
    IF c = 1 THEN FDiv(ParseFloat(row[1]).v, MsPerSecond) ELSE ParseFloat(row[c]).v

\* the indices, in input order, of the valid rows among lines 2..k
RECURSIVE ValidLines(_)
ValidLines(k) ==
    IF k < 2 THEN <<>>
    ELSE IF ValidRow(file[k]) THEN Append(ValidLines(k - 1), k)
    ELSE ValidLines(k - 1)

\* column c of the rows at the given lines
Projection(lines, c) == [j \in 1..Len(lines) |-> Column(file[lines[j]], c)]

NoValidRow == \A k \in 2..Len(file) : ~ValidRow(file[k])

\* parse_csv has returned
ParseDone == opened /\ pc \notin {"parse_csv", "skip_header", "rows"} /\ exit_via # "exception"

PlotPcs == {"plot1", "plot2", "plot3", "plot4", "plot5", "savefig"}

\* the three derivation calls have returned
DerivationDone == pc \in ({"normalize"} \cup PlotPcs) \/ success = "True"

\* calculate_net_acceleration has returned
NetAccDone == pc \in {"jerk", "angular"} \/ DerivationDone

\* the three normalised axes are assigned
NormalizeDone == pc \in PlotPcs \/ success = "True"

SumSquares(i) ==
    FAdd(FAdd(FMul(accel_x[i], accel_x[i]), FMul(accel_y[i], accel_y[i])),
         FMul(accel_z[i], accel_z[i]))

\* (v[i+1] - v[i]) / (time[i+1] - time[i])
Quotient(v, i) == FDiv(FSub(v[i + 1], v[i]), FSub(times[i + 1], times[i]))

\* entry i of rate is the difference quotient of channel v: by the quotient
\* itself and, where the time step is finite and non-zero and the values are
\* finite, by rate[i] * dt = dv
IsDerivative(rate, v) ==
    /\ Len(rate) = N - 1
    /\ \A i \in 1..(N - 1) :
          /\ rate[i] = Quotient(v, i)
          /\ (IsFinite(v[i]) /\ IsFinite(v[i + 1]) /\ IsFinite(times[i])
              /\ IsFinite(times[i + 1]) /\ times[i + 1] # times[i])
             => FMul(rate[i], FSub(times[i + 1], times[i])) = FSub(v[i + 1], v[i])

\* axis is times[1:]
RightEdge(axis) ==
    /\ Len(axis) = N - 1
    /\ \A i \in 1..(N - 1) : axis[i] = times[i + 1]

(***************************************************************************)
(* C1  parse_csv returns the column-wise projection of the valid rows      *)
(***************************************************************************)
\* C1: for a file with at least one line, the seven sequences built by the
\* row loop are, at every iteration and when parse_csv returns, the columns of
\* the valid rows (after the first line, >= 7 fields, fields 0..6 numeric,
\* time / 1000) read so far, in input order; on return every line has been
\* read, so the sequences have one length.
Thm_C1 ==
    (pc \in {"rows", "check_empty"} /\ Len(file) >= 1) =>
        /\ reader >= 2
        /\ LET lines == ValidLines(reader - 1)
           IN  \A c \in 1..NumFields : parsed[c] = Projection(lines, c)
        /\ \A c \in 1..NumFields : Len(parsed[c]) = N
        /\ pc = "check_empty" => reader = Len(file) + 1

\* a numeric first line, then a valid row, a malformed row and a valid row:
\* two samples are returned
Wit_C1 ==
    /\ pc = "check_empty"
    /\ file = <<RowB, RowA, RowH, RowC>>
    /\ N = 2

(***************************************************************************)
(* C2  zero valid rows: failure is reported, not raised                    *)
(***************************************************************************)
\* C2: every run on an existing input file with no valid row (a header and
\* malformed rows only, a header alone, or no line at all) ends with
\* generate_graphs having returned False and the exit status set non-zero by
\* sys.exit, never by an uncaught exception.
Claim_C2 ==
    (pc = "done" /\ argv_len = ArgCount /\ exists /\ NoValidRow) =>
        /\ success = "False"
        /\ exit_via = "sys_exit"
        /\ exit_code # 0

(***************************************************************************)
(* C3  a missing input path fails before any parsing                       *)
(***************************************************************************)
\* C3: with two arguments and a missing input path the run never opens the
\* input, never enters parse_csv and never writes the output; it ends by
\* printing the error and exiting non-zero.
Thm_C3 ==
    (argv_len = ArgCount /\ ~exists) =>
        /\ pc \in {"main", "check_exists", "done"}
        /\ ~opened
        /\ output = <<>>
        /\ plots = <<>>
        /\ pc = "done" =>
              /\ exit_via = "sys_exit"
              /\ exit_code # 0
              /\ printed = <<"Error: Input file not found">>

Wit_C3 == argv_len = ArgCount /\ ~exists /\ pc = "done" /\ exit_code = 1

(***************************************************************************)
(* C4  the output is written only on full success                          *)
(***************************************************************************)
FiveCharts(w) == Len(w) = 5 /\ \A k \in 1..5 : w[k].pos = k

\* C4: the output file is written only after parsing, the empty check, all
\* derivations and the normalisation; a run that ends non-zero has written
\* nothing, a run that ends with status 0 has written the five charts.
Thm_C4 ==
    /\ output # <<>> =>
          /\ pc \in {"exit", "done"}
          /\ ParseDone
          /\ N >= 1
          /\ DerivationDone
          /\ NormalizeDone
          /\ Len(net_acc) = N /\ Len(jerk) = N - 1 /\ Len(times_norm) = N
          /\ FiveCharts(output)
          /\ output = plots
    /\ (pc = "done" /\ exit_code # 0) => output = <<>>
    /\ (pc = "done" /\ exit_code = 0) => FiveCharts(output)

Wit_C4 == pc = "done" /\ exit_code = 0 /\ FiveCharts(output) /\ N = 2

(***************************************************************************)
(* C5  finite differences, right-edge aligned                              *)
(***************************************************************************)
\* C5: for N >= 1 valid rows, net jerk and the yaw, pitch and roll rates
\* have N-1 entries, entry i being (v[i+1] - v[i]) / (time[i+1] - time[i])
\* for its own channel, and both derivative time axes are time[1:]; with
\* N = 1 all of them are empty and the run ends with status 0.
Thm_C5 ==
    /\ DerivationDone =>
          /\ N >= 1
          /\ IsDerivative(jerk, net_acc)
          /\ IsDerivative(yaw_rate, yaws)
          /\ IsDerivative(pitch_rate, pitches)
          /\ IsDerivative(roll_rate, rolls)
          /\ RightEdge(jerk_times)
          /\ RightEdge(deriv_times)
    /\ (ParseDone /\ N = 1 /\ pc = "done") =>
          /\ exit_code = 0
          /\ jerk = <<>> /\ yaw_rate = <<>> /\ pitch_rate = <<>> /\ roll_rate = <<>>
          /\ jerk_times = <<>> /\ deriv_times = <<>>

\* three samples with distinct times: two entries in each derivative
Wit_C5 ==
    /\ pc = "done"
    /\ exit_code = 0
    /\ N = 3
    /\ Len(jerk) = 2
    /\ times[1] # times[2] /\ times[2] # times[3]
    /\ jerk_times[1] # times[1]

(***************************************************************************)
(* C6  net acceleration                                                    *)
(***************************************************************************)
\* C6 as stated: net_acc has N entries, entry i is the non-negative square
\* root of accel_x[i]^2 + accel_y[i]^2 + accel_z[i]^2, so net_acc[i] >= 0
\* for every i.
Claim_C6 ==
    NetAccDone =>
        /\ Len(net_acc) = N
        /\ \A i \in 1..N :
              /\ FGeq(net_acc[i], Zero)
              /\ FMul(net_acc[i], net_acc[i]) = SumSquares(i)

NaNComponent(i) == IsNaN(accel_x[i]) \/ IsNaN(accel_y[i]) \/ IsNaN(accel_z[i])

\* C6 amended: net_acc has N entries; where no component of sample i is NaN,
\* entry i is the non-negative square root of the sum of squares and is
\* >= 0 whatever the signs; where a component is NaN (float() accepts
\* "nan"), entry i is NaN.
Thm_C6 ==
    NetAccDone =>
        /\ Len(net_acc) = N
        /\ \A i \in 1..N :
              IF NaNComponent(i)
              THEN IsNaN(net_acc[i])
              ELSE /\ FGeq(net_acc[i], Zero)
                   /\ FMul(net_acc[i], net_acc[i]) = SumSquares(i)

\* a sample with negative components next to one with a NaN component
Wit_C6 ==
    /\ pc = "jerk"
    /\ N = 2
    /\ FLess(accel_x[1], Zero) /\ FLess(accel_y[1], Zero)
    /\ net_acc[1] = <<7, 1>>
    /\ NaNComponent(2)

(***************************************************************************)
(* C7  one shift for the three time axes                                   *)
(***************************************************************************)
\* every axis is shifted by time[0]
SharedShift ==
    /\ start_time = times[1]
    /\ Len(times_norm) = N
    /\ \A i \in 1..N : times_norm[i] = FSub(times[i], times[1])
    /\ Len(jerk_times_norm) = N - 1
    /\ Len(deriv_times_norm) = N - 1
    /\ \A i \in 1..(N - 1) :
          /\ jerk_times_norm[i] = FSub(times[i + 1], times[1])
          /\ deriv_times_norm[i] = FSub(times[i + 1], times[1])

NonNegative(axis) == \A i \in 1..Len(axis) : FGeq(axis[i], Zero)

HasZero(axis) == \E i \in 1..Len(axis) : axis[i] = Zero

AllFinite(axis) == \A i \in 1..Len(axis) : IsFinite(axis[i])

FirstIsEarliest ==
    /\ IsFinite(times[1])
    /\ \A i \in 1..N : FGeq(times[i], times[1])

ExpectedChart(k) ==
    CASE k = 1 -> [x |-> times_norm, ys |-> <<net_acc>>]
      [] k = 2 -> [x |-> jerk_times_norm, ys |-> <<jerk>>]
      [] k = 3 -> [x |-> times_norm, ys |-> <<accel_x, accel_y, accel_z>>]
      [] k = 4 -> [x |-> times_norm, ys |-> <<yaws, pitches, rolls>>]
      [] k = 5 -> [x |-> deriv_times_norm, ys |-> <<yaw_rate, pitch_rate, roll_rate>>]

\* C9: the charts are issued in the order net acceleration, net jerk, raw
\* accelerations, raw angles, angular rates at positions 1..5, each series
\* with a time axis of its own length (N for charts 1, 3, 4; N-1 for 2, 5),
\* and all five are issued before the output file is written.
Thm_C9 ==
    /\ \A k \in 1..Len(plots) :
          /\ k <= 5
          /\ plots[k].pos = k
          /\ plots[k].x = ExpectedChart(k).x
          /\ plots[k].ys = ExpectedChart(k).ys
          /\ Len(plots[k].x) = (IF k \in {2, 5} THEN N - 1 ELSE N)
          /\ \A j \in 1..Len(plots[k].ys) : Len(plots[k].ys[j]) = Len(plots[k].x)
    /\ (output # <<>> \/ success = "True" \/ pc = "savefig") => Len(plots) = 5

Wit_C9 ==
    /\ pc = "savefig"
    /\ output = <<>>
    /\ Len(plots) = 5
    /\ N = 3
    /\ Len(plots[2].x) = 2

(***************************************************************************)
(* C10  equal adjacent timestamps                                          *)
(***************************************************************************)
\* samples i and i+1 carry one finite timestamp
EqualTimes(i) == IsFinite(times[i]) /\ times[i + 1] = times[i]

Rates == <<jerk, yaw_rate, pitch_rate, roll_rate>>

Channels == <<net_acc, yaws, pitches, rolls>>

\* C10: both rows of a pair with equal timestamps are kept; entry i of jerk
\* and of each angular rate is then infinite or NaN; an entry whose own time
\* step is finite and non-zero and whose channel values are finite stays
\* finite; the run goes on to plot, writes the output and ends with status 0.
Thm_C10 ==
    /\ DerivationDone =>
          \A c \in 1..4 : \A i \in 1..(N - 1) :
              /\ EqualTimes(i) => ~IsFinite(Rates[c][i])
              /\ (/\ IsFinite(times[i]) /\ IsFinite(times[i + 1])
                  /\ times[i + 1] # times[i]
                  /\ IsFinite(Channels[c][i]) /\ IsFinite(Channels[c][i + 1]))
                 => IsFinite(Rates[c][i])
    /\ (ParseDone /\ pc = "done" /\ \E i \in 1..(N - 1) : EqualTimes(i)) =>
          /\ success = "True"
          /\ exit_code = 0
          /\ FiveCharts(output)
          /\ output[2].ys[1] = jerk

\* RowB then RowD (one timestamp) then RowC: an infinite first entry, a
\* finite second one, and the run succeeds
Wit_C10 ==
    /\ pc = "done"
    /\ exit_code = 0
    /\ N = 3
    /\ EqualTimes(1)
    /\ IsInf(jerk[1])
    /\ IsNaN(pitch_rate[1]) \/ IsInf(pitch_rate[1])
    /\ IsFinite(jerk[2])
    /\ FiveCharts(output)

====
